---- MODULE Spec2Model ----
(***************************************************************************)
(* hapi-nes WebSocket client (lib/client.js): connection lifecycle,        *)
(* reconnection backoff and request/response correlation.                  *)
(*                                                                         *)
(* The client is single threaded: every public call, every transport event *)
(* handler and every timer callback runs to completion, so each of them is *)
(* one action.  A handler is written as an operator from the client state  *)
(* (a record c) to the client state after the handler, composed the way    *)
(* the JavaScript functions call each other.  The field c.ev of the record *)
(* collects what the handler did to its environment (hooks and callbacks   *)
(* it called, in order, the message it sent, the exception it raised); it  *)
(* is not part of the state.  A property of one handler is stated on the   *)
(* result of that handler in every reachable state in which it can run.    *)
(***************************************************************************)
EXTENDS Bags, FiniteSets, Integers, Sequences, TLC

VARIABLES
    ws,             \* this._ws: index into socks of the current transport, 0 = null
    reconnection,   \* this._reconnection (on = FALSE is null)
    ids,            \* this._ids
    requests,       \* this._requests: id -> callback
    socks,          \* every transport made by new WS(), with the closure of its _connect call
    timers,         \* bag of pending setTimeout callbacks of _reconnect
    calls,          \* per assigned id: its kind and how often its callbacks were invoked
    sched           \* timeouts passed to setTimeout under the current policy object

vars == <<ws, reconnection, ids, requests, socks, timers, calls, sched>>

-----------------------------------------------------------------------------
(* Bounds of the model *)

MaxSockets == 2         \* transports created over one run
MaxIds == 2             \* ids assigned over one run
StreakLen == 3          \* failed attempts in a row followed from a reachable state

(* Program constants *)

DefaultDelay == 1000
DefaultMaxDelay == 5000

(* Inputs *)

NoAuth == "none"                            \* options.auth undefined
Creds == {NoAuth, "tok"}
DelayOpts == {0, 1000}                      \* options.delay, 0 = not given
MaxDelayOpts == {0, 5000}                   \* options.maxDelay, 0 = not given
ConnectOpts == [reconnect : BOOLEAN, delay : DelayOpts, maxDelay : MaxDelayOpts, auth : Creds]
SendOutcomes == {"ok", "encfail", "sendthrow"}  \* stringify fails / ws.send throws
StatusCodes == {200, 399, 400, 599, 600}
Payloads == {"none", "obj"}                 \* update.payload: null or absent, or an object

(* A parsed inbound message (update); "none" is an absent field *)
NoMsg ==
    [nes |-> "none", id |-> 0, statusCode |-> 0, error |-> "none", payload |-> "none",
     headers |-> "none", message |-> "none"]

Response(id, statusCode, payload) ==
    [NoMsg EXCEPT !.nes = "response", !.id = id, !.statusCode = statusCode,
                  !.payload = payload, !.headers = "headers"]

AuthMsg(id, error) == [NoMsg EXCEPT !.nes = "auth", !.id = id, !.error = error]

Broadcast(id) == [NoMsg EXCEPT !.nes = "broadcast", !.id = id, !.message = "news"]

Messages ==
    {Response(id, statusCode, payload) :
        id \in 0..MaxIds, statusCode \in StatusCodes, payload \in Payloads}
    \cup {AuthMsg(id, error) : id \in 0..MaxIds, error \in {"none", "denied"}}
    \cup {Broadcast(id) : id \in 0..MaxIds}
    \cup {[NoMsg EXCEPT !.nes = "malformed"]}

NoSent == [id |-> 0, k |-> "none", token |-> NoAuth, on |-> 0]

(* One call out of the client.  lvl "send": a callback that was given to    *)
(* _send (k its kind, id its id, 0 when none was assigned); "user": the     *)
(* application's callback of request() or authenticate(); "connect": the    *)
(* callback given to _connect of transport t; "onConnect", "onError",       *)
(* "onBroadcast": the hooks.  err "none" is a null error.                   *)
Done(lvl, k, id, t, err, m) ==
    [lvl |-> lvl, k |-> k, id |-> id, t |-> t, err |-> err, m |-> m]

Min(a, b) == IF a <= b THEN a ELSE b

Null == [on |-> FALSE, wait |-> 0, delay |-> 0, maxDelay |-> 0, auth |-> NoAuth]

NoEv(op, t) ==
    [op |-> op, t |-> t, threw |-> FALSE, opened |-> 0, sched |-> 0, stale |-> FALSE,
     sent |-> NoSent, done |-> <<>>]

(* A transport after its close event: no handler of it runs again and no   *)
(* callback of its _connect call is pending, only how it was made is kept  *)
Closed(rc) ==
    [st |-> "closed", sentCallback |-> TRUE, auth |-> NoAuth, rc |-> rc,
     onConnect |-> 0, cb |-> 0]

-----------------------------------------------------------------------------
(* The client state as one record, and its commit to the variables *)

Cur ==
    [ws |-> ws, reconnection |-> reconnection, ids |-> ids, requests |-> requests,
     socks |-> socks, timers |-> timers, calls |-> calls, sched |-> sched,
     ev |-> NoEv("none", 0)]

Commit(c) ==
    /\ ws' = c.ws
    /\ reconnection' = c.reconnection
    /\ ids' = c.ids
    /\ requests' = c.requests
    /\ socks' = c.socks
    /\ timers' = c.timers
    /\ calls' = c.calls
    /\ sched' = c.sched

Begin(c, op, t) == [c EXCEPT !.ev = NoEv(op, t)]

Called(c, lvl) == {i \in 1..Len(c.ev.done) : c.ev.done[i].lvl = lvl}

-----------------------------------------------------------------------------
(* Client constructor *)

Init ==
    /\ ws = 0
    /\ reconnection = Null
    /\ ids = 0
    /\ requests = <<>>
    /\ socks = <<>>
    /\ timers = EmptyBag
    /\ calls = <<>>
    /\ sched = <<>>

Hook(c, lvl, t) == [c EXCEPT !.ev.done = Append(@, Done(lvl, "none", 0, t, "none", NoMsg))]

(* this.onError(err) *)
onError(c) == Hook(c, "onError", 0)

(* Client.prototype._connect: new WS, this._ws = ws, sentCallback = false;  *)
(* rc tells the callback: FALSE the application's, TRUE that of _reconnect  *)
_connect(c, auth, rc) ==
    LET sock == [st |-> "connecting", sentCallback |-> FALSE, auth |-> auth, rc |-> rc,
                 onConnect |-> 0, cb |-> 0]
    IN  [c EXCEPT !.socks = Append(@, sock),
                  !.ws = Len(c.socks) + 1,
                  !.ev.opened = Len(c.socks) + 1]

(* _reconnect without Math.min: the timeout is the accumulated wait *)
ReconnectUncapped(c) ==
    IF c.reconnection.on
    THEN LET wait == c.reconnection.wait + c.reconnection.delay
         IN  [c EXCEPT !.reconnection.wait = wait,
                       !.timers = @ (+) SetToBag({[timeout |-> wait, stale |-> FALSE]}),
                       !.sched = Append(@, wait),
                       !.ev.sched = @ + 1]
    ELSE c

(* Client.prototype._reconnect *)
_reconnect(c) ==
    IF c.reconnection.on
    THEN LET wait == c.reconnection.wait + c.reconnection.delay
             timeout == Min(wait, c.reconnection.maxDelay)
         IN  [c EXCEPT !.reconnection.wait = wait,
                       !.timers = @ (+) SetToBag({[timeout |-> timeout, stale |-> FALSE]}),
                       !.sched = Append(@, timeout),
                       !.ev.sched = @ + 1]
    ELSE c

(* The callback given to _connect, called with res ("ok" = no error):       *)
(* the application's callback of connect(), or the function of lines        *)
(* 165-171 for an attempt made by the backoff timer                         *)
ConnectCallback(c, t, res) ==
    LET c1 == [c EXCEPT !.socks[t].cb = @ + 1,
                        !.ev.done = Append(@, Done("connect", "none", 0, t, res, NoMsg))]
    IN  IF c.socks[t].rc /\ res # "ok"
        THEN _reconnect(onError(c1))
        ELSE c1

(* The application's callback of request() or authenticate() *)
UserCallback(c, k, id, err, m) ==
    LET c1 == [c EXCEPT !.ev.done = Append(@, Done("user", k, id, 0, err, m))]
    IN  IF id = 0 \/ k # "request" THEN c1 ELSE [c1 EXCEPT !.calls[id].user = @ + 1]

(* What request() passes on of a response: payload, statusCode, headers *)
Delivered(m) ==
    [NoMsg EXCEPT !.payload = m.payload, !.statusCode = m.statusCode, !.headers = m.headers]

(* The function request() gives to _send (lines 196-209); the failure of a  *)
(* status in 400..599 is new Error(update.payload.message), which raises a  *)
(* TypeError when update.payload is null or absent                          *)
RequestCallback(c, id, err, m) ==
    IF err # "none"
    THEN UserCallback(c, "request", id, err, NoMsg)
    ELSE IF m.nes # "response"
         THEN onError(c)
         ELSE IF m.statusCode >= 400 /\ m.statusCode <= 599
              THEN IF m.payload = "none"
                   THEN [c EXCEPT !.ev.threw = TRUE]
                   ELSE UserCallback(c, "request", id, "payload.message", Delivered(m))
              ELSE UserCallback(c, "request", id, "none", Delivered(m))

(* The function of lines 252-264 without the test of update.error *)
AuthCallbackIgnoresError(c, t, id, err, m) ==
    LET callback(d, e) ==
            IF t = 0
            THEN UserCallback(d, "auth", id, IF e = "ok" THEN "none" ELSE e, NoMsg)
            ELSE ConnectCallback(d, t, e)
    IN  IF err # "none"
        THEN callback(c, err)
        ELSE IF m.nes # "auth"
             THEN onError(c)
             ELSE callback(c, "ok")

(* The function authenticate() gives to _send (lines 252-264); t is the     *)
(* transport whose connect callback it completes, 0 when the application    *)
(* called authenticate()                                                    *)
AuthCallback(c, t, id, err, m) ==
    LET callback(d, e) ==
            IF t = 0
            THEN UserCallback(d, "auth", id, IF e = "ok" THEN "none" ELSE e, NoMsg)
            ELSE ConnectCallback(d, t, e)
    IN  IF err # "none"
        THEN callback(c, err)
        ELSE IF m.nes # "auth"
             THEN onError(c)
             ELSE callback(c, IF m.error # "none" THEN m.error ELSE "ok")

(* Invocation of a callback that was given to _send *)
SendCallback(c, cb, id, err, m) ==
    LET c0 == [c EXCEPT !.ev.done = Append(@, Done("send", cb.k, id, cb.t, err, m))]
        c1 == IF id = 0 \/ cb.k # "request" THEN c0 ELSE [c0 EXCEPT !.calls[id].got = @ + 1]
    IN  IF cb.k = "request"
        THEN RequestCallback(c1, id, err, m)
        ELSE AuthCallback(c1, cb.t, id, err, m)

(* _send that takes the id (++this._ids) before it looks at the transport *)
SendCountsFirst(c, cb, token, outcome) ==
    LET id == c.ids + 1
        c1 == [c EXCEPT !.ids = id,
                        !.calls = Append(@, [k |-> cb.k, got |-> 0, user |-> 0])]
    IN  IF c.ws = 0 \/ c.socks[c.ws].st # "open"
        THEN SendCallback(c1, cb, id, "Disconnected", NoMsg)
        ELSE IF outcome = "encfail"
             THEN SendCallback(c1, cb, id, "encfail", NoMsg)
             ELSE IF outcome = "sendthrow"
                  THEN SendCallback(c1, cb, id, "sendthrow", NoMsg)
                  ELSE [c1 EXCEPT !.requests = (id :> cb) @@ @,
                                  !.ev.sent = [id |-> id, k |-> cb.k, token |-> token,
                                               on |-> c.ws]]

(* _send without the rollback of lines 235-238: the entry stays when the    *)
(* transport's send throws                                                  *)
SendThrowKeepsEntry(c, cb, token, outcome) ==
    IF c.ws = 0 \/ c.socks[c.ws].st # "open"
    THEN SendCallback(c, cb, 0, "Disconnected", NoMsg)
    ELSE LET id == c.ids + 1
             c1 == [c EXCEPT !.ids = id,
                             !.calls = Append(@, [k |-> cb.k, got |-> 0, user |-> 0])]
         IN  IF outcome = "encfail"
             THEN SendCallback(c1, cb, id, "encfail", NoMsg)
             ELSE IF outcome = "sendthrow"
                  THEN SendCallback([c1 EXCEPT !.requests = (id :> cb) @@ @],
                                    cb, id, "sendthrow", NoMsg)
                  ELSE [c1 EXCEPT !.requests = (id :> cb) @@ @,
                                  !.ev.sent = [id |-> id, k |-> cb.k, token |-> token,
                                               on |-> c.ws]]

(* Client.prototype._send *)
_send(c, cb, token, outcome) ==
    IF c.ws = 0 \/ c.socks[c.ws].st # "open"
    THEN SendCallback(c, cb, 0, "Disconnected", NoMsg)
    ELSE LET id == c.ids + 1
             c1 == [c EXCEPT !.ids = id,
                             !.calls = Append(@, [k |-> cb.k, got |-> 0, user |-> 0])]
         IN  IF outcome = "encfail"
             THEN SendCallback(c1, cb, id, "encfail", NoMsg)
             ELSE IF outcome = "sendthrow"
                  THEN SendCallback(c1, cb, id, "sendthrow", NoMsg)
                  ELSE [c1 EXCEPT !.requests = (id :> cb) @@ @,
                                  !.ev.sent = [id |-> id, k |-> cb.k, token |-> token,
                                               on |-> c.ws]]

(* Client.prototype.authenticate *)
authenticate(c, token, t, outcome) == _send(c, [k |-> "auth", t |-> t], token, outcome)

(* Client.prototype.request *)
request(c, outcome) == _send(c, [k |-> "request", t |-> 0], NoAuth, outcome)

Without(f, id) == [i \in DOMAIN f \ {id} |-> f[i]]

SetMin(S) == CHOOSE x \in S : \A y \in S : x <= y

(* The loop of _onClose stopping one key early (i < il - 1) *)
RECURSIVE FlushButLast(_, _)
FlushButLast(c, pending) ==
    IF Cardinality(pending) <= 1
    THEN c
    ELSE LET id == SetMin(pending)
             callback == c.requests[id]
             c1 == [c EXCEPT !.requests = Without(@, id)]
         IN  FlushButLast(SendCallback(c1, callback, id, "Disconnected", NoMsg), pending \ {id})

(* The loop of _onClose over Object.keys(this._requests), ascending ids *)
RECURSIVE Flush(_, _)
Flush(c, pending) ==
    IF pending = {}
    THEN c
    ELSE LET id == SetMin(pending)
             callback == c.requests[id]
             c1 == [c EXCEPT !.requests = Without(@, id)]
         IN  Flush(SendCallback(c1, callback, id, "Disconnected", NoMsg), pending \ {id})

(* _onClose without the flush of lines 140-148 *)
OnCloseWithoutFlush(c) == _reconnect([c EXCEPT !.ws = 0])

(* Client.prototype._onClose *)
_onClose(c) ==
    LET c1 == [c EXCEPT !.ws = 0]
    IN  _reconnect(Flush(c1, DOMAIN c1.requests))

(* this.onBroadcast(update.message) *)
onBroadcast(c, message) ==
    [c EXCEPT !.ev.done = Append(@, Done("onBroadcast", "none", 0, 0, "none",
                                         [NoMsg EXCEPT !.message = message]))]

(* _onMessage that answers the request that has been pending longest *)
OnMessageOldestFirst(c, m) ==
    IF m.nes = "malformed"
    THEN onError(c)
    ELSE IF m.nes = "broadcast"
         THEN onBroadcast(c, m.message)
         ELSE IF m.id \notin DOMAIN c.requests
              THEN onError(c)
              ELSE LET id == SetMin(DOMAIN c.requests)
                   IN  SendCallback([c EXCEPT !.requests = Without(@, id)],
                                    c.requests[id], id, "none", m)

(* _onMessage that looks the id up before it looks at the kind *)
OnMessageLooksUpFirst(c, m) ==
    IF m.nes = "malformed"
    THEN onError(c)
    ELSE IF m.id \in DOMAIN c.requests
         THEN SendCallback([c EXCEPT !.requests = Without(@, m.id)],
                           c.requests[m.id], m.id, "none", m)
         ELSE IF m.nes = "broadcast"
              THEN onBroadcast(c, m.message)
              ELSE onError(c)

(* Client.prototype._onMessage *)
_onMessage(c, m) ==
    IF m.nes = "malformed"
    THEN onError(c)
    ELSE IF m.nes = "broadcast"
         THEN onBroadcast(c, m.message)
         ELSE IF m.id \notin DOMAIN c.requests
              THEN onError(c)
              ELSE SendCallback([c EXCEPT !.requests = Without(@, m.id)],
                                c.requests[m.id], m.id, "none", m)

(* onopen that starts the backoff over once a transport has opened *)
OnOpenResetsWait(c, t, outcome) ==
    IF ~ c.socks[t].sentCallback
    THEN LET c1 == Hook([c EXCEPT !.socks[t].sentCallback = TRUE,
                                  !.socks[t].onConnect = @ + 1,
                                  !.reconnection.wait = 0], "onConnect", t)
             auth == c.socks[t].auth
         IN  IF auth = NoAuth
             THEN ConnectCallback(c1, t, "ok")
             ELSE authenticate(c1, auth, t, outcome)
    ELSE c

(* ws.onopen of transport t *)
onopen(c, t, outcome) ==
    IF ~ c.socks[t].sentCallback
    THEN LET c1 == Hook([c EXCEPT !.socks[t].sentCallback = TRUE,
                                  !.socks[t].onConnect = @ + 1], "onConnect", t)
             auth == c.socks[t].auth
         IN  IF auth = NoAuth
             THEN ConnectCallback(c1, t, "ok")
             ELSE authenticate(c1, auth, t, outcome)
    ELSE c

(* onerror without the sentCallback flag: every error goes to the callback *)
OnErrorAlwaysToCallback(c, t) ==
    ConnectCallback([c EXCEPT !.socks[t].sentCallback = TRUE], t, "error")

(* onerror that reports every error to onError as well *)
OnErrorAlwaysToHook(c, t) ==
    IF ~ c.socks[t].sentCallback
    THEN onError(ConnectCallback([c EXCEPT !.socks[t].sentCallback = TRUE], t, "error"))
    ELSE onError(c)

(* ws.onerror of transport t *)
onerror(c, t) ==
    IF ~ c.socks[t].sentCallback
    THEN ConnectCallback([c EXCEPT !.socks[t].sentCallback = TRUE], t, "error")
    ELSE onError(c)

(* connect that starts the ids of the new connection from zero *)
ConnectResetsIds(c, options) ==
    LET c1 == [c EXCEPT !.reconnection =
                   IF options.reconnect
                   THEN [on |-> TRUE, wait |-> 0,
                         delay |-> IF options.delay # 0 THEN options.delay ELSE DefaultDelay,
                         maxDelay |-> IF options.maxDelay # 0 THEN options.maxDelay
                                      ELSE DefaultMaxDelay,
                         auth |-> options.auth]
                   ELSE Null,
                 !.sched = <<>>,
                 !.ids = 0]
    IN  _connect(c1, options.auth, FALSE)

(* Client.prototype.connect *)
connect(c, options) ==
    LET c1 == [c EXCEPT !.reconnection =
                   IF options.reconnect
                   THEN [on |-> TRUE, wait |-> 0,
                         delay |-> IF options.delay # 0 THEN options.delay ELSE DefaultDelay,
                         maxDelay |-> IF options.maxDelay # 0 THEN options.maxDelay
                                      ELSE DefaultMaxDelay,
                         auth |-> options.auth]
                   ELSE Null,
                 !.sched = <<>>]
    IN  _connect(c1, options.auth, FALSE)

(* Every pending timer was scheduled before this disconnect() *)
MarkStale(b) ==
    LET T == {[x EXCEPT !.stale = TRUE] : x \in BagToSet(b)}
    IN  [y \in T |-> CopiesIn(y, b) + CopiesIn([y EXCEPT !.stale = FALSE], b)]

(* disconnect that closes the transport and leaves the policy in place *)
DisconnectKeepsPolicy(c) ==
    LET c1 == [c EXCEPT !.timers = MarkStale(@)]
    IN  IF c1.ws = 0
        THEN c1
        ELSE IF c1.socks[c1.ws].st = "open"
             THEN [c1 EXCEPT !.socks[c1.ws].st = "closing"]
             ELSE IF c1.socks[c1.ws].st = "connecting"
                  THEN [c1 EXCEPT !.socks[c1.ws].st = "failing"]
                  ELSE c1

(* Client.prototype.disconnect: ws.close() moves an open transport to       *)
(* CLOSING; a connecting one leaves CONNECTING and will not open            *)
disconnect(c) ==
    LET c1 == [c EXCEPT !.reconnection = Null, !.timers = MarkStale(@), !.sched = <<>>]
    IN  IF c1.ws = 0
        THEN c1
        ELSE IF c1.socks[c1.ws].st = "open"
             THEN [c1 EXCEPT !.socks[c1.ws].st = "closing"]
             ELSE IF c1.socks[c1.ws].st = "connecting"
                  THEN [c1 EXCEPT !.socks[c1.ws].st = "failing"]
                  ELSE c1

(* The function given to setTimeout by _reconnect (lines 163-172):          *)
(* self._reconnection.auth is evaluated first and raises a TypeError when   *)
(* self._reconnection is null                                               *)
TimerCallback(c) ==
    IF ~ c.reconnection.on
    THEN [c EXCEPT !.ev.threw = TRUE]
    ELSE _connect(c, c.reconnection.auth, TRUE)

-----------------------------------------------------------------------------
(* The steps of the client: for each call and each event, the result of    *)
(* its handler on a state c, and the action that takes it from the current *)
(* state                                                                   *)

Fits(c) == c.ids <= MaxIds /\ Len(c.socks) <= MaxSockets

In(c, states) == {t \in 1..Len(c.socks) : c.socks[t].st \in states}

(* Calls of the application *)

ConnectStep(c, options) == connect(Begin(c, "connect", 0), options)

DisconnectStep(c) == disconnect(Begin(c, "disconnect", 0))

RequestStep(c, outcome) == request(Begin(c, "request", 0), outcome)

AuthenticateStep(c, token, outcome) ==
    authenticate(Begin(c, "authenticate", 0), token, 0, outcome)

(* Events of a transport, in the order open -> (message | error)* -> close; *)
(* readyState is OPEN when onopen runs and CLOSED when onclose runs, an     *)
(* error ends a connection attempt and may end an open connection           *)

OpenStep(c, t, outcome) ==
    onopen([Begin(c, "open", t) EXCEPT !.socks[t].st = "open"], t, outcome)

AfterError(st) ==
    IF st \in {"connecting", "failing"} THEN {"failing"} ELSE {st, "closing"}

CanError(c, t) ==
    \/ c.socks[t].st \in {"connecting", "open", "closing"}
    \/ c.socks[t].st = "failing" /\ ~ c.socks[t].sentCallback

ErrorStep(c, t, st) == onerror([Begin(c, "error", t) EXCEPT !.socks[t].st = st], t)

CanClose(c) == In(c, {"open", "closing", "failing"})

CloseStep(c, t) ==
    LET d == _onClose([Begin(c, "close", t) EXCEPT !.socks[t].st = "closed"])
    IN  [d EXCEPT !.socks[t] = Closed(c.socks[t].rc)]

CanMessage(c) == In(c, {"open", "closing"}) # {}

MessageStep(c, m) == _onMessage(Begin(c, "message", 0), m)

(* A backoff timer expires *)

TimerStep(c, x) ==
    TimerCallback([Begin(c, "timer", 0) EXCEPT !.timers = @ (-) SetToBag({x}),
                                               !.ev.stale = x.stale])

(* An action takes one of the results of its handler over the inputs *)
Take(c) == Fits(c) /\ Commit(c)

Connect == \E c \in {ConnectStep(Cur, options) : options \in ConnectOpts} : Take(c)

Disconnect == \E c \in {DisconnectStep(Cur)} : Take(c)

Request == \E c \in {RequestStep(Cur, outcome) : outcome \in SendOutcomes} : Take(c)

Authenticate ==
    \E c \in {AuthenticateStep(Cur, token, outcome) :
                 token \in Creds \ {NoAuth}, outcome \in SendOutcomes} : Take(c)

Open ==
    \E t \in In(Cur, {"connecting"}) :
        \E c \in {OpenStep(Cur, t, outcome) : outcome \in SendOutcomes} : Take(c)

Error ==
    \E t \in {u \in 1..Len(socks) : CanError(Cur, u)} :
        \E c \in {ErrorStep(Cur, t, st) : st \in AfterError(socks[t].st)} : Take(c)

Close == \E t \in CanClose(Cur) : Take(CloseStep(Cur, t))

Message == CanMessage(Cur) /\ \E c \in {MessageStep(Cur, m) : m \in Messages} : Take(c)

Timer == \E x \in BagToSet(timers) : Take(TimerStep(Cur, x))

Next ==
    \/ Connect
    \/ Disconnect
    \/ Request
    \/ Authenticate
    \/ Open
    \/ Error
    \/ Close
    \/ Message
    \/ Timer

Spec == Init /\ [][Next]_vars

(* One connect cycle on its own: the application calls connect() once, with *)
(* reconnection enabled, and then only the transports and the backoff      *)
(* timers act; the counterpart answers the auth messages that are pending  *)

CycleSockets == 3       \* transports created over one connect cycle

FitsCycle(c) == Len(c.socks) <= CycleSockets /\ c.ids <= CycleSockets

TakeCycle(c) == FitsCycle(c) /\ Commit(c)

CycleOpts == {options \in ConnectOpts :
                 options.reconnect /\ options.delay = 0 /\ options.maxDelay = 0}

AuthAnswers == {AuthMsg(id, error) : id \in DOMAIN requests, error \in {"none", "denied"}}

CycleConnect ==
    /\ socks = <<>>
    /\ \E c \in {ConnectStep(Cur, options) : options \in CycleOpts} : TakeCycle(c)

CycleOpen ==
    \E t \in In(Cur, {"connecting"}) :
        \E c \in {OpenStep(Cur, t, outcome) : outcome \in SendOutcomes} : TakeCycle(c)

CycleError ==
    \E t \in {u \in 1..Len(socks) : CanError(Cur, u)} :
        \E c \in {ErrorStep(Cur, t, st) : st \in AfterError(socks[t].st)} : TakeCycle(c)

CycleClose == \E t \in CanClose(Cur) : TakeCycle(CloseStep(Cur, t))

CycleMessage ==
    CanMessage(Cur) /\ \E c \in {MessageStep(Cur, m) : m \in AuthAnswers} : TakeCycle(c)

CycleTimer == \E x \in BagToSet(timers) : TakeCycle(TimerStep(Cur, x))

NextCycle ==
    \/ CycleConnect
    \/ CycleOpen
    \/ CycleError
    \/ CycleClose
    \/ CycleMessage
    \/ CycleTimer

SpecCycle == Init /\ [][NextCycle]_vars

(* Every result of a handler that can run in the current state *)
EventSteps ==
    UNION {{OpenStep(Cur, t, outcome) : outcome \in SendOutcomes} : t \in In(Cur, {"connecting"})}
    \cup UNION {{ErrorStep(Cur, t, st) : st \in AfterError(socks[t].st)} :
                   t \in {u \in 1..Len(socks) : CanError(Cur, u)}}
    \cup {CloseStep(Cur, t) : t \in CanClose(Cur)}
    \cup (IF CanMessage(Cur) THEN {MessageStep(Cur, m) : m \in Messages} ELSE {})
    \cup {TimerStep(Cur, x) : x \in BagToSet(timers)}

CallSteps ==
    {ConnectStep(Cur, options) : options \in ConnectOpts}
    \cup {DisconnectStep(Cur)}
    \cup {RequestStep(Cur, outcome) : outcome \in SendOutcomes}
    \cup {AuthenticateStep(Cur, token, outcome) :
             token \in Creds \ {NoAuth}, outcome \in SendOutcomes}

AllSteps == EventSteps \cup CallSteps

TypeOK ==
    /\ ws \in 0..Len(socks)
    /\ ids \in 0..MaxIds
    /\ Len(socks) <= MaxSockets
    /\ DOMAIN requests \subseteq 1..ids
    /\ Len(calls) = ids
    /\ \A c \in AllSteps : c.ev.op # "none"

-----------------------------------------------------------------------------
(* Calls of a handler result c to the callback of the request with this id *)

SendCalls(c, id) == {i \in Called(c, "send") : c.ev.done[i].id = id}

UserCalls(c, id) == {i \in Called(c, "user") : c.ev.done[i].id = id}

IsRequest(id) == calls[id].k = "request"

(* C1: every request() made on an open transport has its callback invoked   *)
(* exactly once: never twice and, once its id has left the pending table    *)
(* (answered by the inbound message carrying its id, or flushed by a        *)
(* close), never zero times.                                                *)
C1_EachRequestExactlyOnce ==
    \A id \in 1..ids :
        IsRequest(id) =>
            /\ calls[id].user <= 1
            /\ id \notin DOMAIN requests => calls[id].user = 1

(* C2: when a transport closes while N requests are pending, the close      *)
(* handler invokes each of the N registered callbacks exactly once, with a  *)
(* "Disconnected" failure and in no other way, passes that failure on to    *)
(* the application's callback of each pending request, and leaves the       *)
(* pending table empty and the transport handle null.                       *)
C2_CloseFlushesAllPending ==
    \A t \in CanClose(Cur) :
        LET c == CloseStep(Cur, t)
        IN  /\ DOMAIN c.requests = {}
            /\ c.ws = 0
            /\ Cardinality(Called(c, "send")) = Cardinality(DOMAIN requests)
            /\ \A id \in DOMAIN requests :
                  /\ Cardinality(SendCalls(c, id)) = 1
                  /\ \A i \in SendCalls(c, id) : c.ev.done[i].err = "Disconnected"
                  /\ requests[id].k = "request" =>
                        /\ Cardinality(UserCalls(c, id)) = 1
                        /\ \A i \in UserCalls(c, id) : c.ev.done[i].err = "Disconnected"

(* C2, witness: a transport closes while two requests are pending and its   *)
(* close handler calls back both.                                           *)
C2_Witness ==
    /\ Cardinality(DOMAIN requests) = 2
    /\ \A id \in DOMAIN requests : requests[id].k = "request"
    /\ \E t \in CanClose(Cur) : Cardinality(Called(CloseStep(Cur, t), "user")) = 2

-----------------------------------------------------------------------------
(* Reconnection *)

(* The k-th timeout scheduled under the policy of c is min(k*delay, maxDelay) *)
LinearThenCapped(c) ==
    c.reconnection.on =>
        /\ c.reconnection.wait = Len(c.sched) * c.reconnection.delay
        /\ \A k \in 1..Len(c.sched) :
              /\ c.sched[k] = Min(k * c.reconnection.delay, c.reconnection.maxDelay)
              /\ c.sched[k] <= c.reconnection.maxDelay

(* A reconnection attempt that fails: a pending timer expires, the transport *)
(* it makes fires error and then close                                       *)
FailedAttempt(c) ==
    LET x == CHOOSE y \in BagToSet(c.timers) : TRUE
        c1 == TimerStep(c, x)
        t == c1.ev.opened
        c2 == ErrorStep(c1, t, "failing")
    IN  CloseStep(c2, t)

RECURSIVE Streak(_, _)
Streak(c, n) ==
    IF n = 0 \/ ~ c.reconnection.on \/ c.timers = EmptyBag
    THEN c
    ELSE Streak(FailedAttempt(c), n - 1)

(* C3: under a policy with delay and maxDelay (1000 and 5000 by default or  *)
(* as given), the k-th timeout scheduled since connect() is                 *)
(* min(k*delay, maxDelay), so 1000, 2000, 3000, 4000, 5000, 5000, 5000,     *)
(* ..., and none exceeds maxDelay: in every reachable state, and from there *)
(* on through StreakLen more reconnection attempts that all fail.           *)
C3_WaitsLinearThenCapped ==
    /\ LinearThenCapped(Cur)
    /\ LinearThenCapped(Streak(Cur, StreakLen))

(* C3, witness: the first transport has closed, one attempt is scheduled at *)
(* 1000, and the attempts that follow all fail: the waits run 1000, 2000,   *)
(* 3000, 4000, 5000, 5000, 5000.                                            *)
C3_Witness ==
    /\ reconnection.on /\ reconnection.delay = 1000 /\ reconnection.maxDelay = 5000
    /\ sched = <<1000>>
    /\ BagCardinality(timers) = 1
    /\ LET c == Streak(Cur, 3)
       IN  c.sched = <<1000, 2000, 3000, 4000, 5000, 5000, 5000>>

(* C4: a backoff timer that was pending when disconnect() was called opens  *)
(* no transport when it expires, also when connect() was called in between. *)
C4_TimerPendingAtDisconnectOpensNothing ==
    \A x \in BagToSet(timers) : x.stale => TimerStep(Cur, x).ev.opened = 0

(* connect() was called at most once: at most one transport was not made by *)
(* the backoff timer                                                        *)
OneConnectCall == Cardinality({t \in 1..Len(socks) : ~ socks[t].rc}) <= 1

(* C5: at most one reconnection attempt is outstanding: never two pending   *)
(* backoff timers, never two transports connecting or open; stated for the  *)
(* runs in which the application called connect() once.                     *)
C5_AtMostOneAttemptOutstanding ==
    OneConnectCall =>
        /\ BagCardinality(timers) <= 1
        /\ Cardinality(In(Cur, {"connecting", "open"})) <= 1

(* C6: while a transport made by a reconnection attempt is open, from its   *)
(* open event until its close event, no handler schedules a reconnection    *)
(* attempt, also when the replayed credential is rejected.                  *)
C6_NoAttemptScheduledWhileReconnected ==
    \A c \in AllSteps :
        (\E t \in In(Cur, {"open"}) : socks[t].rc /\ c.socks[t].st # "closed") =>
            c.ev.sched = 0

(* C7: no transport event handler and no backoff timer callback raises an   *)
(* exception, in any reachable state.                                       *)
C7_NoHandlerThrows == \A c \in EventSteps : ~ c.ev.threw

-----------------------------------------------------------------------------
(* Connecting *)

(* Calls of a handler result c to the connect callback of transport t *)
ConnectCalls(c, t) == {i \in Called(c, "connect") : c.ev.done[i].t = t}

OnConnectCalls(c, t) == {i \in Called(c, "onConnect") : c.ev.done[i].t = t}

HandshakeFailures == {"Disconnected", "encfail", "sendthrow"}

(* C8: when the transport of an attempt opens, onConnect is called exactly  *)
(* once and before the connect callback; with no credential the connect     *)
(* callback is completed at once with success; with a credential an auth    *)
(* message carrying it is sent and the connect callback is completed with   *)
(* the result of that handshake (at once with its failure if it cannot be   *)
(* sent).  The connect callback of one attempt is never invoked twice, and  *)
(* never after the close of its transport.                                  *)
C8_OpenThenHandshakeThenCallbackOnce ==
    /\ \A t \in 1..Len(socks) :
          /\ socks[t].cb <= 1
          /\ socks[t].st \in {"open", "closing"} => socks[t].onConnect = 1
          /\ socks[t].st = "connecting" => socks[t].onConnect = 0 /\ socks[t].cb = 0
    /\ \A c \in AllSteps :
          /\ \A t \in 1..Len(socks) :
                /\ socks[t].cb + Cardinality(ConnectCalls(c, t)) <= 1
                /\ socks[t].st = "closed" => ConnectCalls(c, t) = {}
                /\ OnConnectCalls(c, t) # {} => c.ev.op = "open" /\ c.ev.t = t
          /\ \A i \in Called(c, "send") :
                LET d == c.ev.done[i]
                IN  d.k = "auth" /\ d.t # 0 =>
                        IF d.err # "none"
                        THEN \E j \in ConnectCalls(c, d.t) : c.ev.done[j].err = d.err
                        ELSE IF d.m.nes = "auth"
                             THEN \E j \in ConnectCalls(c, d.t) :
                                      c.ev.done[j].err =
                                          (IF d.m.error # "none" THEN d.m.error ELSE "ok")
                             ELSE ConnectCalls(c, d.t) = {}
    /\ \A t \in In(Cur, {"connecting"}) : \A outcome \in SendOutcomes :
          LET c == OpenStep(Cur, t, outcome)
          IN  /\ Cardinality(Called(c, "onConnect")) = 1
              /\ Cardinality(OnConnectCalls(c, t)) = 1
              /\ \A i \in OnConnectCalls(c, t) : \A j \in ConnectCalls(c, t) : i < j
              /\ IF socks[t].auth = NoAuth
                 THEN /\ c.ev.sent = NoSent
                      /\ \E j \in ConnectCalls(c, t) : c.ev.done[j].err = "ok"
                 ELSE \/ /\ c.ev.sent.k = "auth"
                         /\ c.ev.sent.token = socks[t].auth
                         /\ c.requests[c.ev.sent.id] = [k |-> "auth", t |-> t]
                         /\ ConnectCalls(c, t) = {}
                      \/ /\ c.ev.sent = NoSent
                         /\ \E j \in ConnectCalls(c, t) : c.ev.done[j].err \in HandshakeFailures

(* C8, witness: a transport opened, onConnect was called once, the auth     *)
(* message of its credential is pending, and the inbound auth message       *)
(* without error completes its connect callback with success.               *)
C8_Witness ==
    \E t \in In(Cur, {"open"}) : \E id \in DOMAIN requests :
        /\ requests[id] = [k |-> "auth", t |-> t]
        /\ socks[t].auth # NoAuth /\ socks[t].onConnect = 1 /\ socks[t].cb = 0
        /\ LET c == MessageStep(Cur, AuthMsg(id, "none"))
           IN  \E j \in ConnectCalls(c, t) : c.ev.done[j].err = "ok"

(* What C9 says of a transport error after a successful connect: onError is *)
(* called, once, and nothing else happens                                   *)
OnErrorOnly(c) ==
    /\ Cardinality(Called(c, "onError")) = 1
    /\ Len(c.ev.done) = 1
    /\ c.requests = requests
    /\ c.calls = calls
    /\ c.ev.sched = 0

(* C9, as stated: a transport error before the attempt reported its first   *)
(* open or error completes the connect callback with that error and does    *)
(* not call onError; a transport error after a successful connect calls     *)
(* onError only, leaves the pending table unchanged and invokes no request  *)
(* callback.                                                                *)
C9_ConnectErrorNeverReachesOnError ==
    \A t \in 1..Len(socks) : CanError(Cur, t) =>
        \A st \in AfterError(socks[t].st) :
            LET c == ErrorStep(Cur, t, st)
            IN  IF ~ socks[t].sentCallback
                THEN /\ Cardinality(ConnectCalls(c, t)) = 1
                     /\ \A j \in ConnectCalls(c, t) : c.ev.done[j].err = "error"
                     /\ Called(c, "onError") = {}
                ELSE OnErrorOnly(c)

(* C9, amended: a transport error before the attempt reported its first     *)
(* open or error completes the connect callback with that error; onError is *)
(* not called when the attempt was made by connect(), and is called once,   *)
(* by the connect callback itself, when the attempt was made by the backoff *)
(* timer.  In neither case is a request callback invoked or the pending     *)
(* table changed.  A transport error after a successful connect calls       *)
(* onError only, leaves the pending table unchanged and invokes no request  *)
(* callback.                                                                *)
C9_ConnectErrorToCallbackLaterErrorToHook ==
    \A t \in 1..Len(socks) : CanError(Cur, t) =>
        \A st \in AfterError(socks[t].st) :
            LET c == ErrorStep(Cur, t, st)
            IN  IF ~ socks[t].sentCallback
                THEN /\ Cardinality(ConnectCalls(c, t)) = 1
                     /\ \A j \in ConnectCalls(c, t) : c.ev.done[j].err = "error"
                     /\ Cardinality(Called(c, "onError")) = (IF socks[t].rc THEN 1 ELSE 0)
                     /\ c.requests = requests
                     /\ Called(c, "send") = {} /\ Called(c, "user") = {}
                ELSE OnErrorOnly(c)

(* C9, witness: a transport made by the backoff timer is connecting under   *)
(* an active policy; its error completes the connect callback of the        *)
(* attempt, which calls onError once and schedules the next attempt.        *)
C9_Witness ==
    \E t \in In(Cur, {"connecting"}) :
        /\ socks[t].rc /\ ~ socks[t].sentCallback /\ reconnection.on
        /\ LET c == ErrorStep(Cur, t, "failing")
           IN  /\ Cardinality(ConnectCalls(c, t)) = 1
               /\ Cardinality(Called(c, "onError")) = 1
               /\ c.ev.sched = 1

(* C10: disconnect() sets the policy to null and asks the current transport *)
(* to close if it is open or connecting; it changes nothing else, raises    *)
(* nothing and calls nothing, so with no transport only the policy changes, *)
(* and a second call changes nothing at all.  While the policy is null, so  *)
(* from disconnect() until connect() is called again, no handler schedules  *)
(* a reconnection attempt or opens a transport, the close handler of the    *)
(* disconnected transport included.                                         *)
C10_DisconnectIdempotentAndFinal ==
    /\ LET c == DisconnectStep(Cur)
       IN  /\ c.reconnection = Null
           /\ ~ c.ev.threw /\ c.ev.done = <<>> /\ c.ev.sched = 0 /\ c.ev.opened = 0
           /\ c.ws = ws /\ c.ids = ids /\ c.requests = requests /\ c.calls = calls
           /\ BagCardinality(c.timers) = BagCardinality(timers)
           /\ Len(c.socks) = Len(socks)
           /\ \A t \in 1..Len(socks) :
                 IF t = ws /\ socks[t].st \in {"open", "connecting"}
                 THEN /\ c.socks[t].st \in {"closing", "failing"}
                      /\ [c.socks[t] EXCEPT !.st = socks[t].st] = socks[t]
                 ELSE c.socks[t] = socks[t]
           /\ DisconnectStep(c) = c
    /\ ~ reconnection.on =>
          \A c \in AllSteps :
              c.ev.op # "connect" => c.ev.sched = 0 /\ c.ev.opened = 0 /\ ~ c.reconnection.on

(* C10, witness: disconnect() was called while a backoff timer was pending  *)
(* and the current transport was open; the transport now closes and its     *)
(* close handler schedules nothing.                                         *)
C10_Witness ==
    /\ ~ reconnection.on
    /\ \E x \in BagToSet(timers) : x.stale
    /\ ws # 0 /\ socks[ws].st = "closing"
    /\ CloseStep(Cur, ws).ev.sched = 0
    /\ DisconnectStep(Cur).socks = socks

-----------------------------------------------------------------------------
(* Sending *)

(* The results of request() and authenticate() called by the application   *)
(* in the current state, with every outcome of serialization and send      *)
SendSteps(outcomes) ==
    {RequestStep(Cur, outcome) : outcome \in outcomes}
    \cup {AuthenticateStep(Cur, token, outcome) :
             token \in Creds \ {NoAuth}, outcome \in outcomes}

NotOpen == ws = 0 \/ socks[ws].st # "open"

(* C11: request() or authenticate() called when the transport handle is     *)
(* null or its transport is not open (connecting, closing, closed) invokes  *)
(* its callback within the call, exactly once and with "Disconnected",      *)
(* sends nothing and leaves the id counter, the pending table and the rest  *)
(* of the client unchanged.                                                 *)
C11_NotOpenFailsAtOnce ==
    NotOpen =>
        \A c \in SendSteps(SendOutcomes) :
            /\ Cardinality(Called(c, "user")) = 1
            /\ \A i \in Called(c, "user") : c.ev.done[i].err = "Disconnected"
            /\ Len(c.ev.done) = 2
            /\ c.ev.sent = NoSent /\ ~ c.ev.threw
            /\ c.ids = ids /\ c.requests = requests
            /\ c.ws = ws /\ c.socks = socks /\ c.reconnection = reconnection
            /\ c.timers = timers

(* C11, witness: the current transport is closing after disconnect() while  *)
(* a request is pending, and a request() made now is called back with       *)
(* "Disconnected" while the table keeps its entry.                          *)
C11_Witness ==
    /\ ws # 0 /\ socks[ws].st = "closing"
    /\ DOMAIN requests # {}
    /\ LET c == RequestStep(Cur, "ok")
       IN  /\ c.requests = requests
           /\ \E i \in Called(c, "user") : c.ev.done[i].err = "Disconnected"

(* C12: no call and no event handler decreases or resets the id counter,    *)
(* connect(), disconnect() and the backoff timer included; an id is         *)
(* assigned by adding one, so it is at least 1, and it is registered only   *)
(* when it is not in the pending table: the entries a handler leaves in the *)
(* table are the ones that were there, with their callbacks, and at most    *)
(* one new entry under the new value of the counter.                        *)
C12_IdsOnlyGrowAndNeverCollide ==
    /\ DOMAIN requests \subseteq 1..ids
    /\ \A c \in AllSteps :
          /\ c.ids \in {ids, ids + 1}
          /\ DOMAIN c.requests \ DOMAIN requests \subseteq {ids + 1} \cap {c.ids}
          /\ \A id \in DOMAIN c.requests \cap DOMAIN requests : c.requests[id] = requests[id]
          /\ c.ev.sent # NoSent => c.ev.sent.id = ids + 1 /\ c.ids = ids + 1

(* C12, witness: the first transport carried request 1 and has closed, the  *)
(* transport made by the backoff timer is open and the request sent on it   *)
(* is pending under id 2.                                                   *)
C12_Witness ==
    /\ Len(socks) = 2 /\ socks[1].st = "closed"
    /\ socks[2].rc /\ socks[2].st = "open" /\ ws = 2
    /\ ids = 2 /\ DOMAIN requests = {2}
    /\ calls[1].k = "request" /\ calls[2].k = "request"

(* The id a send in the current state would take *)
NextId == ids + 1

(* C13: when serialization of the outgoing message fails or the transport's *)
(* send throws, the caller's callback is invoked exactly once, with that    *)
(* failure; afterwards the pending table has no entry for the message's id  *)
(* and is otherwise unchanged, nothing counts as sent, and a close of any   *)
(* transport after that does not invoke the callback again.                 *)
C13_FailedSendReportedOnceAndNotRegistered ==
    ~ NotOpen =>
        \A c \in SendSteps({"encfail", "sendthrow"}) :
            /\ Cardinality(Called(c, "send")) = 1
            /\ \A i \in Called(c, "send") :
                  c.ev.done[i].id = NextId /\ c.ev.done[i].err \in {"encfail", "sendthrow"}
            /\ Cardinality(Called(c, "user")) = 1
            /\ \A i \in Called(c, "user") : \A j \in Called(c, "send") :
                  c.ev.done[i].err = c.ev.done[j].err
            /\ c.requests = requests
            /\ NextId \notin DOMAIN c.requests
            /\ c.ev.sent = NoSent /\ ~ c.ev.threw
            /\ \A t \in CanClose(c) :
                  LET d == CloseStep(c, t)
                  IN  /\ \A i \in Called(d, "send") : d.ev.done[i].id # NextId
                      /\ \A i \in Called(d, "user") : d.ev.done[i].id # NextId

(* C13, witness: request 1 is pending on the open transport; the send of a  *)
(* second request throws: its callback gets the failure, the table still    *)
(* holds request 1 only, and the close that follows calls back request 1    *)
(* and nothing else.                                                        *)
C13_Witness ==
    /\ ~ NotOpen /\ ids = 1 /\ DOMAIN requests = {1} /\ requests[1].k = "request"
    /\ LET c == RequestStep(Cur, "sendthrow")
           d == CloseStep(c, ws)
       IN  /\ \E i \in Called(c, "user") : c.ev.done[i].err = "sendthrow"
           /\ DOMAIN c.requests = {1}
           /\ Cardinality(Called(d, "user")) = 1
           /\ \A i \in Called(d, "user") : d.ev.done[i].id = 1

-----------------------------------------------------------------------------
(* Receiving *)

(* The inbound messages that parse and are not broadcasts *)
Correlated == {m \in Messages : m.nes \notin {"broadcast", "malformed"}}

(* C14: an inbound message that is not a broadcast is matched by its id     *)
(* alone.  If the id is in the pending table, that entry and no other is    *)
(* removed and the callback registered under it, and no other, is invoked   *)
(* once with the message, whichever request was sent first; if the id is    *)
(* not in the table (never assigned, already answered, flushed by a close), *)
(* onError is called once, no callback is invoked and the table is          *)
(* unchanged.                                                               *)
C14_MatchedByIdAlone ==
    CanMessage(Cur) =>
        \A m \in Correlated :
            LET c == MessageStep(Cur, m)
            IN  IF m.id \in DOMAIN requests
                THEN /\ c.requests = Without(requests, m.id)
                     /\ Cardinality(Called(c, "send")) = 1
                     /\ \A i \in Called(c, "send") :
                           /\ c.ev.done[i].id = m.id
                           /\ c.ev.done[i].k = requests[m.id].k
                           /\ c.ev.done[i].t = requests[m.id].t
                           /\ c.ev.done[i].err = "none"
                           /\ c.ev.done[i].m = m
                     /\ \A i \in Called(c, "user") : c.ev.done[i].id = m.id
                ELSE /\ c.requests = requests
                     /\ Cardinality(Called(c, "onError")) = 1
                     /\ Len(c.ev.done) = 1

(* C14, witness: requests 1 and 2 are pending; the response to request 2    *)
(* arrives first and completes request 2 alone, and the second message with *)
(* id 2 that follows it is reported to onError.                             *)
C14_Witness ==
    /\ CanMessage(Cur) /\ DOMAIN requests = {1, 2}
    /\ requests[1].k = "request" /\ requests[2].k = "request"
    /\ LET c == MessageStep(Cur, Response(2, 200, "obj"))
           d == MessageStep(c, Response(2, 200, "obj"))
       IN  /\ DOMAIN c.requests = {1}
           /\ \E i \in Called(c, "user") : c.ev.done[i].id = 2
           /\ Called(d, "onError") # {} /\ Called(d, "user") = {}

(* C15: an inbound message of kind "broadcast" is given to onBroadcast,     *)
(* once and with its message field; no callback is invoked and the pending  *)
(* table, the id counter and the transport handle are unchanged, with       *)
(* requests pending or not, and also when the broadcast carries the id of a *)
(* pending request.                                                         *)
C15_BroadcastLeavesTableAlone ==
    CanMessage(Cur) =>
        \A id \in 0..MaxIds :
            LET c == MessageStep(Cur, Broadcast(id))
            IN  /\ Cardinality(Called(c, "onBroadcast")) = 1
                /\ \A i \in Called(c, "onBroadcast") :
                      c.ev.done[i].m.message = Broadcast(id).message
                /\ Len(c.ev.done) = 1
                /\ c.requests = requests /\ c.calls = calls
                /\ c.ids = ids /\ c.ws = ws /\ c.socks = socks
                /\ ~ c.ev.threw

(* C15, witness: request 1 is pending and a broadcast carrying id 1 is      *)
(* delivered to onBroadcast while request 1 stays pending.                  *)
C15_Witness ==
    /\ CanMessage(Cur) /\ DOMAIN requests = {1} /\ requests[1].k = "request"
    /\ LET c == MessageStep(Cur, Broadcast(1))
       IN  /\ Called(c, "onBroadcast") # {}
           /\ DOMAIN c.requests = {1}

(* The ids under which an authenticate() of the application is pending *)
PendingAuthenticate ==
    {id \in DOMAIN requests : requests[id].k = "auth" /\ requests[id].t = 0}

(* C16: when the inbound auth message matching an authenticate() of the     *)
(* application carries an error indicator, the callback is invoked, once,   *)
(* with a failure of that text; when it carries none, the callback is       *)
(* invoked, once, with a null failure.                                      *)
C16_AuthenticateResultFromErrorIndicator ==
    CanMessage(Cur) =>
        \A id \in PendingAuthenticate : \A error \in {"none", "denied"} :
            LET c == MessageStep(Cur, AuthMsg(id, error))
            IN  /\ Cardinality(Called(c, "user")) = 1
                /\ \A i \in Called(c, "user") :
                      /\ c.ev.done[i].k = "auth" /\ c.ev.done[i].id = id
                      /\ c.ev.done[i].err = error
                /\ Called(c, "onError") = {} /\ Called(c, "connect") = {}
                /\ id \notin DOMAIN c.requests

(* C16, witness: an authenticate() of the application is pending on the     *)
(* open transport; the auth message with the error "denied" fails it with   *)
(* that text, the auth message without error completes it with null.        *)
C16_Witness ==
    /\ ~ NotOpen
    /\ \E id \in PendingAuthenticate :
          /\ \E i \in Called(MessageStep(Cur, AuthMsg(id, "denied")), "user") :
                MessageStep(Cur, AuthMsg(id, "denied")).ev.done[i].err = "denied"
          /\ \E i \in Called(MessageStep(Cur, AuthMsg(id, "none")), "user") :
                MessageStep(Cur, AuthMsg(id, "none")).ev.done[i].err = "none"

(* The ids under which a request() is pending *)
PendingRequest == {id \in DOMAIN requests : requests[id].k = "request"}

(* C17: when the inbound message matching a request has kind "response",    *)
(* the request's callback is invoked with (failure, payload, statusCode,    *)
(* headers): the failure is non-null exactly when 400 <= statusCode <= 599  *)
(* (null for 399 and 600, the payload's message for 400 and 599), and       *)
(* payload, statusCode and headers are those of the message in both cases.  *)
C17_FailureExactlyFor400To599 ==
    CanMessage(Cur) =>
        \A id \in PendingRequest : \A statusCode \in StatusCodes : \A payload \in Payloads :
            LET m == Response(id, statusCode, payload)
                c == MessageStep(Cur, m)
            IN  /\ Cardinality(Called(c, "user")) = 1
                /\ \A i \in Called(c, "user") :
                      /\ c.ev.done[i].id = id
                      /\ c.ev.done[i].err # "none" <=> (400 <= statusCode /\ statusCode <= 599)
                      /\ c.ev.done[i].err \in {"none", "payload.message"}
                      /\ c.ev.done[i].m.payload = m.payload
                      /\ c.ev.done[i].m.statusCode = m.statusCode
                      /\ c.ev.done[i].m.headers = m.headers

-----------------------------------------------------------------------------
(* The reconnection policy *)

(* C18: only connect() makes a policy, with an accumulated wait of zero;    *)
(* every other call and every handler that leaves a policy in place leaves  *)
(* the one that was there, with its delay, maxDelay and credential, and an  *)
(* accumulated wait that has not decreased: a failed attempt, the open of a *)
(* reconnected transport and a later close alike.                           *)
C18_WaitResetOnlyByConnect ==
    \A c \in AllSteps :
        c.reconnection.on =>
            IF c.ev.op = "connect"
            THEN c.reconnection.wait = 0
            ELSE /\ reconnection.on
                 /\ c.reconnection.wait >= reconnection.wait
                 /\ c.reconnection.wait = reconnection.wait + c.ev.sched * reconnection.delay
                 /\ [c.reconnection EXCEPT !.wait = reconnection.wait] = reconnection

(* C18, witness: the transport made by the backoff timer after a wait of    *)
(* 1000 is open and its connect callback has succeeded; the accumulated     *)
(* wait is still 1000, and the close of this transport takes it to 2000.    *)
C18_Witness ==
    /\ ws # 0 /\ socks[ws].rc /\ socks[ws].st = "open" /\ socks[ws].cb = 1
    /\ reconnection.on /\ reconnection.wait = 1000 /\ reconnection.delay = 1000
    /\ CloseStep(Cur, ws).reconnection.wait = 2000

(* C19: in a connect cycle every transport made by the backoff timer        *)
(* carries the credential of the connect() call that started the cycle.     *)
(* When such a transport opens it sends, on itself and before its outcome   *)
(* is decided, an auth message with that credential if one was given, and   *)
(* no message if none was given.                                            *)
C19_EveryAttemptReplaysCredential ==
    \A t \in In(Cur, {"connecting"}) :
        socks[t].rc =>
            /\ socks[t].auth = reconnection.auth
            /\ LET c == OpenStep(Cur, t, "ok")
               IN  IF reconnection.auth = NoAuth
                   THEN c.ev.sent = NoSent
                   ELSE /\ c.ev.sent.k = "auth"
                        /\ c.ev.sent.token = reconnection.auth
                        /\ c.ev.sent.on = t
                        /\ ConnectCalls(c, t) = {}

(* C20: between handlers, when the transport handle is null the pending     *)
(* table is empty, and every id in the table is between 1 and the id        *)
(* counter; when the table is not empty, the handle is a transport that has *)
(* not closed yet, whose close will flush it.                               *)
C20_NoPendingRequestWithoutTransport ==
    /\ ws = 0 => DOMAIN requests = {}
    /\ DOMAIN requests \subseteq 1..ids
    /\ DOMAIN requests # {} =>
          /\ ws \in CanClose(Cur) \cup In(Cur, {"connecting"})
          /\ DOMAIN CloseStep(Cur, ws).requests = {}

(* C20, witness: two requests were sent and called back, every transport    *)
(* has closed, the handle is null and the table is empty.                   *)
C20_Witness ==
    /\ ws = 0 /\ ids = 2 /\ DOMAIN requests = {}
    /\ \A id \in 1..2 : calls[id].k = "request" /\ calls[id].user = 1
    /\ socks # <<>> /\ \A t \in 1..Len(socks) : socks[t].st = "closed"

====
